---- MODULE Spec2Model ----
(***************************************************************************)
(* Model of websocket_server.py: the connection gate and stream session of *)
(* handle_client, the capture loop of continuous_delta_updates and the     *)
(* broadcaster broadcast_message, as coroutines of one asyncio event loop. *)
(*                                                                         *)
(* A coroutine runs without interruption from one suspension (an await     *)
(* that blocks) to the next, so every action is one such run segment.      *)
(* websocket.send writes the message when it is called on an open          *)
(* connection and may then suspend; on a closed connection it raises.      *)
(* websocket.close closes the connection when it is called and returns     *)
(* later; the handler of the closed connection is resumed by the event     *)
(* loop on its own, in no fixed order with the coroutine that closed it.   *)
(* The capture loop may be descheduled between two frames as well as       *)
(* inside a send.  A frame is represented by the number of packets         *)
(* generate_delta_packets yields for it.                                   *)
(***************************************************************************)
EXTENDS Integers, Sequences, FiniteSets, TLC

\* ---------------------------------------------------------------- bounds
MaxConn == 3            \* connection attempts in one run of the server
MaxBroadcasts == 2      \* broadcast_message calls in one run of the server
MaxEvents == 3          \* connections, disconnections and file changes the
                        \* environment produces in one run of the server
MaxPackets == 2         \* packets generate_delta_packets yields for a frame
RecursionLimit == 2     \* nesting depth of continuous_delta_updates at
                        \* which the interpreter raises RecursionError
                        \* (sys.getrecursionlimit(), 1000 unless changed)

\* ------------------------------------------------------------- constants
SPECTACLES_IP == "172.20.10.9"
OtherIP == "127.0.0.1"
None == "None"          \* last_sent_message = None
NoClient == 0           \* current_client = None

Conns == 1..MaxConn
Tasks == 1..MaxBroadcasts
Payloads == {"m1", "m2"}
\* websocket.remote_address: an (ip, port) pair, or None
Addresses == {<<SPECTACLES_IP>>, <<OtherIP>>, <<>>}

\* client_ip = client_addr[0] if client_addr else "unknown"
client_ip(client_addr) ==
    IF client_addr # <<>> THEN client_addr[1] ELSE "unknown"

\* ------------------------------------------------------------ the screen
\* handle_client sets screen_width, screen_height = 1920, 1080; every
\* screenshot is resized to that size
screen_width == 2
screen_height == 2

Pixels(w, h) == {<<x, y>> : x \in 0..(w - 1), y \in 0..(h - 1)}
Coords == Pixels(screen_width, screen_height)

\* colors are (r, g, b); the second is in the quantization bucket of black
Black == <<0, 0, 0>>
RawColors == {Black, <<0, 0, 15>>, <<255, 16, 0>>}

\* an RGB image: its size and what load() gives for each pixel
Images(w, h) ==
    {[width |-> w, height |-> h, pixels |-> f] : f \in [Pixels(w, h) -> RawColors]}
Frames == Images(screen_width, screen_height)
\* Image.new('RGB', (screen_width, screen_height), (0, 0, 0))
BlackFrame ==
    [width |-> screen_width, height |-> screen_height,
     pixels |-> [p \in Coords |-> Black]]

\* ------------------------------------------------------- quantize_color
DefaultLevels == 16     \* def quantize_color(color, levels=16)
ChannelValues == 256    \* step = 256 // levels

\* a quantizer that rounds to the upper edge of the bucket
MutQuantizeUp(c, levels) ==
    LET step == ChannelValues \div levels IN ((c \div step) + 1) * step
\* (c // step) * step + step // 2
quantize_channel(c, levels) ==
    LET step == ChannelValues \div levels IN (c \div step) * step + step \div 2

quantize_color(rgb, levels) ==
    <<quantize_channel(rgb[1], levels), quantize_channel(rgb[2], levels),
      quantize_channel(rgb[3], levels)>>

\* ---------------------------------------- generate_delta_packets, step 1
\* if prev_r != new_r or prev_g != new_g or prev_b != new_b
PixelChanged(prev_rgb, new_rgb) ==
    prev_rgb[1] # new_rgb[1] \/ prev_rgb[2] # new_rgb[2] \/ prev_rgb[3] # new_rgb[3]

NoPixels == [p \in {} |-> Black]

\* changed_pixels[(x, y)] = quantize_color((new_r, new_g, new_b))
ChangedPixels(prev, new) ==
    [p \in {q \in Coords : PixelChanged(prev.pixels[q], new.pixels[q])} |->
        quantize_color(new.pixels[p], DefaultLevels)]

\* ------------------------------------------- merge_pixels_to_rectangles
\* the test of both loops of grow_rectangle_greedy: the pixel is changed,
\* has the color of the rectangle and is in no rectangle yet
MutTakeVisited(changed, seen, p, rgb) ==
    p \in DOMAIN changed /\ changed[p] = rgb
MutTakeAnyColor(changed, seen, p, rgb) ==
    p \in DOMAIN changed /\ p \notin seen
CanTake(changed, seen, p, rgb) ==
    p \in DOMAIN changed /\ changed[p] = rgb /\ p \notin seen

\* Step 1: expand X (go right as far as possible)
RECURSIVE ExpandX(_, _, _, _, _)
ExpandX(changed, seen, max_x, start_y, rgb) ==
    IF CanTake(changed, seen, <<max_x + 1, start_y>>, rgb)
    THEN ExpandX(changed, seen, max_x + 1, start_y, rgb)
    ELSE max_x

\* Step 2: expand Y (go down as far as possible with the full width)
RECURSIVE ExpandY(_, _, _, _, _, _)
ExpandY(changed, seen, start_x, max_x, max_y, rgb) ==
    IF \A test_x \in start_x..max_x :
          CanTake(changed, seen, <<test_x, max_y + 1>>, rgb)
    THEN ExpandY(changed, seen, start_x, max_x, max_y + 1, rgb)
    ELSE max_y

\* a variant that grows downward first and then to the right
RECURSIVE MutExpandDown(_, _, _, _, _)
MutExpandDown(changed, seen, start_x, max_y, rgb) ==
    IF CanTake(changed, seen, <<start_x, max_y + 1>>, rgb)
    THEN MutExpandDown(changed, seen, start_x, max_y + 1, rgb)
    ELSE max_y
RECURSIVE MutExpandRight(_, _, _, _, _, _)
MutExpandRight(changed, seen, max_x, start_y, max_y, rgb) ==
    IF \A test_y \in start_y..max_y :
          CanTake(changed, seen, <<max_x + 1, test_y>>, rgb)
    THEN MutExpandRight(changed, seen, max_x + 1, start_y, max_y, rgb)
    ELSE max_x
MutGrowHeightFirst(changed, start_x, start_y, rgb, seen) ==
    LET max_y == MutExpandDown(changed, seen, start_x, start_y, rgb)
        max_x == MutExpandRight(changed, seen, start_x, start_y, max_y, rgb)
    IN  [x |-> start_x, y |-> start_y,
         w |-> max_x - start_x + 1, h |-> max_y - start_y + 1,
         r |-> rgb[1], g |-> rgb[2], b |-> rgb[3]]

grow_rectangle_greedy(changed, start_x, start_y, rgb, seen) ==
    LET max_x == ExpandX(changed, seen, start_x, start_y, rgb)
        max_y == ExpandY(changed, seen, start_x, max_x, start_y, rgb)
    IN  [x |-> start_x, y |-> start_y,
         w |-> max_x - start_x + 1, h |-> max_y - start_y + 1,
         r |-> rgb[1], g |-> rgb[2], b |-> rgb[3]]

\* the pixels of a rectangle: what Step 3 adds to visited
Cells(rect) ==
    {<<x, y>> : x \in rect.x..(rect.x + rect.w - 1),
                y \in rect.y..(rect.y + rect.h - 1)}

\* for y in range(screen_height): for x in range(screen_width): the k-th
\* pixel of the scan is (k mod screen_width, k div screen_width)
RECURSIVE MergeFrom(_, _, _, _)
MergeFrom(changed, k, seen, rects) ==
    IF k >= screen_width * screen_height THEN rects
    ELSE LET p == <<k % screen_width, k \div screen_width>>
         IN  IF p \in DOMAIN changed /\ p \notin seen
             THEN LET rect == grow_rectangle_greedy(changed, p[1], p[2],
                                                    changed[p], seen)
                  IN  MergeFrom(changed, k + 1, seen \cup Cells(rect),
                                Append(rects, rect))
             ELSE MergeFrom(changed, k + 1, seen, rects)

merge_pixels_to_rectangles(changed) == MergeFrom(changed, 0, {}, <<>>)

\* ------------------------------------------------------- the packetizers
RECTANGLES_PER_PACKET == 100000

\* for i in range(0, len(rectangles), B): batch = rectangles[i:i + B]
RECURSIVE BatchesFrom(_, _, _)
BatchesFrom(rects, i, B) ==
    IF i >= Len(rects) THEN <<>>
    ELSE LET last == IF i + B < Len(rects) THEN i + B ELSE Len(rects)
         IN  <<[type |-> "rectangle_packet",
                rectangles |-> SubSeq(rects, i + 1, last)]>>
             \o BatchesFrom(rects, i + B, B)

RectangleBatches(rects, B) == BatchesFrom(rects, 0, B)

\* generate_delta_packets for a pair of screenshots: its changed_pixels,
\* its rectangles (none if it returns at "if not changed_pixels") and the
\* packets it yields
DeltaStages(prev, new) ==
    LET changed == ChangedPixels(prev, new)
        rects == IF DOMAIN changed = {} THEN <<>>
                 ELSE merge_pixels_to_rectangles(changed)
    IN  [changed_pixels |-> changed,
         rectangles |-> rects,
         packets |-> IF DOMAIN changed = {} THEN <<>>
                     ELSE RectangleBatches(rects, RECTANGLES_PER_PACKET)]

generate_delta_packets(prev, new) == DeltaStages(prev, new).packets

\* the rectangles of the packets ps, in the order the for loop of
\* continuous_delta_updates sends them
RECURSIVE SentRectangles(_)
SentRectangles(ps) ==
    IF ps = <<>> THEN <<>>
    ELSE Head(ps).rectangles \o SentRectangles(Tail(ps))

\* pixel_buffer.append([x, height - 1 - y, r, g, b]) for the k-th pixel in
\* the order for y in range(height): for x in range(width)
PixelItem(screenshot, k) ==
    LET x == k % screenshot.width
        y == k \div screenshot.width
        rgb == screenshot.pixels[<<x, y>>]
    IN  <<x, screenshot.height - 1 - y, rgb[1], rgb[2], rgb[3]>>

\* a generator that forgets the pixels left in the buffer after the loop
RECURSIVE MutScreenshotNoTail(_, _, _, _)
MutScreenshotNoTail(screenshot, per_packet, k, pixel_buffer) ==
    IF k >= screenshot.width * screenshot.height THEN <<>>
    ELSE LET buffer == Append(pixel_buffer, PixelItem(screenshot, k))
         IN  IF Len(buffer) >= per_packet
             THEN <<[type |-> "screenshot_packet", pixels |-> buffer]>>
                  \o MutScreenshotNoTail(screenshot, per_packet, k + 1, <<>>)
             ELSE MutScreenshotNoTail(screenshot, per_packet, k + 1, buffer)

\* the loop of generate_screenshot_packets from the k-th pixel on, with
\* pixel_buffer as it is then, and the yield after the loop
RECURSIVE ScreenshotPacketsFrom(_, _, _, _)
ScreenshotPacketsFrom(screenshot, per_packet, k, pixel_buffer) ==
    IF k >= screenshot.width * screenshot.height
    THEN IF pixel_buffer # <<>>
         THEN <<[type |-> "screenshot_packet", pixels |-> pixel_buffer]>>
         ELSE <<>>
    ELSE LET buffer == Append(pixel_buffer, PixelItem(screenshot, k))
         IN  IF Len(buffer) >= per_packet
             THEN <<[type |-> "screenshot_packet", pixels |-> buffer]>>
                  \o ScreenshotPacketsFrom(screenshot, per_packet, k + 1, <<>>)
             ELSE ScreenshotPacketsFrom(screenshot, per_packet, k + 1, buffer)

generate_screenshot_packets(screenshot, pixels_per_packet) ==
    ScreenshotPacketsFrom(screenshot, pixels_per_packet, 0, <<>>)

\* ------------------------------------------------------- the sun times
MaxTime == 5            \* instants are 0..MaxTime
Times == 0..MaxTime
NoTime == -1            \* parse_time returned None

\* the strings of the API: <<"iso", t>> is the ISO text of instant t and
\* <<>> is '', what results.get(key, '') gives for a missing key
IsoStrings == {<<"iso", t>> : t \in Times} \cup {<<>>}

\* datetime.fromisoformat(...).astimezone(), or None when that raises
parse_time(utc_time_str) ==
    IF utc_time_str # <<>> THEN utc_time_str[2] ELSE NoTime

ApiKeys == <<"astronomical_twilight_begin", "sunrise", "solar_noon",
             "sunset", "astronomical_twilight_end">>

\* the results of an API answer: the instants present are in the order of
\* the day
ApiResults ==
    {res \in [1..Len(ApiKeys) -> IsoStrings] :
        \A i, j \in DOMAIN res :
            (i < j /\ res[i] # <<>> /\ res[j] # <<>>) => res[i][2] < res[j][2]}

ApiResponses ==
    {[status |-> "OK", results |-> res] : res \in ApiResults}
    \cup {[status |-> "INVALID_REQUEST", results |-> [i \in 1..Len(ApiKeys) |-> <<>>]]}

\* sun_times_data = None
NoSunTimes ==
    [is_none |-> TRUE, astronomical_dawn |-> NoTime, sunrise |-> NoTime,
     solar_noon |-> NoTime, sunset |-> NoTime, astronomical_dusk |-> NoTime]

\* what fetch_sun_times returns for an answer of the API (None when the
\* request raises or the status is not OK)
fetch_sun_times(response) ==
    IF response.status # "OK" THEN NoSunTimes
    ELSE [is_none |-> FALSE,
          astronomical_dawn |-> parse_time(response.results[1]),
          sunrise |-> parse_time(response.results[2]),
          solar_noon |-> parse_time(response.results[3]),
          sunset |-> parse_time(response.results[4]),
          astronomical_dusk |-> parse_time(response.results[5])]

\* colors (r, g, b, a) of the init packet, in units of 0.5
NightColor == <<2, 0, 0, 2>>
DawnColor == <<2, 2, 0, 2>>
MorningColor == <<0, 0, 2, 2>>
AfternoonColor == <<0, 2, 2, 2>>
DuskColor == <<2, 1, 0, 2>>

Night == [color |-> NightColor, phase |-> "night"]
TypeError == [color |-> <<>>, phase |-> "TypeError"]

\* low <= now < high: low <= now is evaluated first and now < high only if
\* it is true; comparing None with a datetime raises TypeError
Between(low, now, high) ==
    IF low = NoTime THEN "TypeError"
    ELSE IF ~(low <= now) THEN "False"
    ELSE IF high = NoTime THEN "TypeError"
    ELSE IF now < high THEN "True" ELSE "False"

\* the if/elif chain from its i-th test on; tests are <<low, high, result>>
RECURSIVE PhaseFrom(_, _, _)
PhaseFrom(tests, i, now) ==
    IF i > Len(tests) THEN Night
    ELSE LET t == Between(tests[i][1], now, tests[i][2])
         IN  IF t = "TypeError" THEN TypeError
             ELSE IF t = "True" THEN tests[i][3]
             ELSE PhaseFrom(tests, i + 1, now)

get_sun_phase_color(sun_times, now) ==
    IF sun_times.is_none THEN Night
    ELSE PhaseFrom(
           <<<<sun_times.astronomical_dawn, sun_times.sunrise,
               [color |-> DawnColor, phase |-> "dawn"]>>,
             <<sun_times.sunrise, sun_times.solar_noon,
               [color |-> MorningColor, phase |-> "morning"]>>,
             <<sun_times.solar_noon, sun_times.sunset,
               [color |-> AfternoonColor, phase |-> "afternoon"]>>,
             <<sun_times.sunset, sun_times.astronomical_dusk,
               [color |-> DuskColor, phase |-> "dusk"]>>>>, 1, now)

\* --------------------------------------------------- the conversation log
MaxLines == 2           \* lines of a conversation file

\* lines of a file: empty, blank, not JSON, and two JSON objects
Lines == {"", " ", "{bad", "e1", "e2"}
\* what extract_latest_event makes of a JSON object: "[time] role: content"
Formatted == ("e1" :> "m1") @@ ("e2" :> "m2")
\* line.strip()
strip(line) == IF line \in {"", " "} THEN "" ELSE line

FileContents == UNION {[1..n -> Lines] : n \in 0..MaxLines}
\* src_path as <<stem, suffix>>
Paths == {<<"session", ".jsonl">>, <<"session.jsonl", ".bak">>}
FileEvents ==
    [is_directory : BOOLEAN, src_path : Paths, lines : FileContents]

endswith(path, suffix) == path # <<>> /\ path[Len(path)] = suffix

\* an extractor that goes on to the line before when a line does not parse
RECURSIVE MutExtractSkipsBadLine(_, _)
MutExtractSkipsBadLine(lines, i) ==
    IF i = 0 THEN None
    ELSE IF strip(lines[i]) \in DOMAIN Formatted THEN Formatted[strip(lines[i])]
    ELSE MutExtractSkipsBadLine(lines, i - 1)

\* for line in reversed(lines), from the i-th line down: the first line
\* that is not empty after strip() is parsed and formatted; json.loads
\* raising is caught: return None.  No such line: return None.
RECURSIVE ExtractFrom(_, _)
ExtractFrom(lines, i) ==
    IF i = 0 THEN None
    ELSE IF strip(lines[i]) # ""
         THEN IF strip(lines[i]) \in DOMAIN Formatted
              THEN Formatted[strip(lines[i])]
              ELSE None
         ELSE ExtractFrom(lines, i - 1)

extract_latest_event(lines) == ExtractFrom(lines, Len(lines))

\* the message on_modified passes to broadcast_message, or None
on_modified(event) ==
    IF event.is_directory THEN None
    ELSE IF ~endswith(event.src_path, ".jsonl") THEN None
    ELSE extract_latest_event(event.lines)

VARIABLES
    current_client,     \* the module global: None or the installed connection
    last_sent_message,  \* the module global: None or the last payload
    pc,                 \* per connection: where its handle_client coroutine is
    remote_address,     \* per connection: websocket.remote_address
    closed,             \* per connection: somebody has closed it
    sent,               \* per connection: the messages written to it, in order
    pending,            \* per connection: packets of the frame not yet sent
    depth,              \* per connection: nesting of continuous_delta_updates
    bpc,                \* per broadcast task: where the coroutine is
    btarget,            \* per broadcast task: the connection its send is on
    \* history variables (observations, never read by the program)
    peerClosed,         \* per connection: the viewer closed it
    activeAtArrival,    \* per connection: sessions in progress when it arrived
    acked,              \* per connection: recv() has returned a message
    cleanupSaw,         \* per connection: current_client as the finally
                        \* clause of its handler found it, or -1
    calls,              \* payloads of the broadcast_message calls, in order
    bfailed,            \* per connection: a broadcast send to it has failed
    watched,            \* the file events on_modified has handled, in order
    \* the sun times and the clock
    sun_times_data,     \* the module global: what main got from the API
    clock,              \* the instant datetime.now() gives
    \* the screen pipeline
    prev_screenshot,    \* continuous_delta_updates' parameter
    new_screenshot,     \* the screenshot it has grabbed
    changed_pixels,     \* generate_delta_packets: (x, y) -> quantized color
    rectangles,         \* what merge_pixels_to_rectangles returned
    packets,            \* the packets a generator has yielded
    cycles,             \* history: the frame and the rectangles of every
                        \* cycle whose packets have all been sent
    pixels_per_packet,  \* the capacity of a packet
    color,              \* quantize_color's argument
    quantized_color,    \* quantize_color's result
    stage               \* which of these values have been computed

vars == <<current_client, last_sent_message, pc, remote_address, closed, sent,
          pending, depth, bpc, btarget, peerClosed, activeAtArrival, acked,
          cleanupSaw, calls, bfailed, watched, sun_times_data, clock,
          prev_screenshot, new_screenshot, changed_pixels, rectangles,
          packets, cycles, pixels_per_packet, color, quantized_color, stage>>

globals == <<current_client, last_sent_message>>
tasks == <<bpc, btarget>>
hist == <<peerClosed, activeAtArrival, acked, cleanupSaw, calls, bfailed>>
sun == <<sun_times_data, clock>>
screen == <<prev_screenshot, new_screenshot, changed_pixels, rectangles,
            packets, cycles>>
calc == <<pixels_per_packet, color, quantized_color, stage>>

\* 'last_message': last_sent_message if last_sent_message else None
MutInitWithoutLastMessage(rgba) ==
    [type |-> "init", color |-> rgba, body |-> None]
InitPacket(rgba) ==
    [type |-> "init", color |-> rgba, body |-> last_sent_message]
RectanglePacket == [type |-> "rectangle_packet", body |-> None]
TextMessage(m) == [type |-> "text", body |-> m]

\* the globals and the connections when main starts to serve
ServerInit ==
    /\ current_client = NoClient
    /\ last_sent_message = None
    /\ pc = [c \in Conns |-> "unconnected"]
    /\ remote_address = [c \in Conns |-> <<>>]
    /\ closed = [c \in Conns |-> FALSE]
    /\ sent = [c \in Conns |-> <<>>]
    /\ pending = [c \in Conns |-> 0]
    /\ depth = [c \in Conns |-> 0]
    /\ bpc = [b \in Tasks |-> "unscheduled"]
    /\ btarget = [b \in Tasks |-> NoClient]
    /\ peerClosed = [c \in Conns |-> FALSE]
    /\ activeAtArrival = [c \in Conns |-> {}]
    /\ acked = [c \in Conns |-> FALSE]
    /\ cleanupSaw = [c \in Conns |-> -1]
    /\ calls = <<>>
    /\ bfailed = [c \in Conns |-> FALSE]
    /\ watched = <<>>

\* no screenshot has been grabbed
ScreenInit ==
    /\ prev_screenshot = BlackFrame
    /\ new_screenshot = BlackFrame
    /\ changed_pixels = NoPixels
    /\ rectangles = <<>>
    /\ packets = <<>>
    /\ cycles = <<>>

CalcInit ==
    /\ pixels_per_packet = RECTANGLES_PER_PACKET
    /\ color = Black
    /\ quantized_color = <<>>
    /\ stage = "serving"

\* a server whose request for the sun times failed
Init ==
    /\ ServerInit
    /\ sun_times_data = NoSunTimes
    /\ clock = 0
    /\ ScreenInit
    /\ CalcInit

\* A session exists for c and has not reached Terminated
InSession(c) == pc[c] \in {"initializing", "awaiting_ack", "capture", "sending"}
\* c's handler runs the capture loop on a connection nobody has closed
Streaming(c) == pc[c] \in {"capture", "sending"} /\ ~closed[c]

\* the environment events so far: connections, disconnections, file changes
events ==
    Cardinality({c \in Conns : pc[c] # "unconnected"})
    + Cardinality({c \in Conns : peerClosed[c]})
    + Cardinality({b \in Tasks : bpc[b] # "unscheduled"})
    + Cardinality({i \in DOMAIN watched : watched[i].class # "event"})

\* the environment may produce one more event
EnvironmentEvent == events < MaxEvents

\* ------------------------------------------------------ the code's tests
\* if client_ip != SPECTACLES_IP: reject
MutAllowedAny(client_addr) == TRUE
Allowed(client_addr) == client_ip(client_addr) = SPECTACLES_IP

\* if current_client: close it before installing the new one
NeedsEviction(slot) == slot # NoClient

\* finally: if current_client == websocket: current_client = None
MutFinallyAlways(c, slot) == NoClient
SlotAfterFinally(c, slot) == IF slot = c THEN NoClient ELSE slot

\* if message == last_sent_message: return
MutDuplicateNever(message, last) == FALSE
IsDuplicate(message, last) == message = last

\* except Exception: current_client = None
MutBroadcastFailureKeeps(slot) == slot
SlotAfterBroadcastFailure(slot) == NoClient

\* where handle_client goes after the init send returned: ack = await recv()
MutAfterInitStream == "capture"
AfterInit == "awaiting_ack"

\* an exception raised by a send in the capture loop is caught only by
\* handle_client's except clauses, which end the handler
MutSendErrorSwallowed == "capture"
AfterSendError == "terminated"

\* -------------------------------------------------------- handle_client
\* except ...: log; finally: clear the slot if it holds this connection.
\* slot is the value of current_client when the finally clause runs.
Terminate(c, slot) ==
    /\ pc' = [pc EXCEPT ![c] = "terminated"]
    /\ current_client' = SlotAfterFinally(c, slot)
    /\ cleanupSaw' = [cleanupSaw EXCEPT ![c] = slot]

\* get_sun_phase_color(sun_times_data) if sun_times_data else (night)
InitColor ==
    IF ~sun_times_data.is_none
    THEN get_sun_phase_color(sun_times_data, clock)
    ELSE Night

\* a handler that gives up when the slot is still occupied after the close
MutInstallUnlessOccupied(c) ==
    IF closed[c] \/ current_client # NoClient
    THEN /\ Terminate(c, current_client)
         /\ UNCHANGED sent
    ELSE /\ current_client' = c
         /\ sent' = [sent EXCEPT ![c] = Append(@, InitPacket(InitColor.color))]
         /\ pc' = [pc EXCEPT ![c] = "initializing"]
         /\ UNCHANGED cleanupSaw

\* current_client = websocket; color, phase = ...;
\* await websocket.send(init_message).  An exception of the color
\* computation or of the send is caught by handle_client's except clauses
\* with current_client = websocket.
InstallAndInit(c) ==
    IF closed[c] \/ InitColor.phase = "TypeError"
    THEN /\ Terminate(c, c)
         /\ UNCHANGED sent
    ELSE /\ current_client' = c
         /\ sent' = [sent EXCEPT ![c] = Append(@, InitPacket(InitColor.color))]
         /\ pc' = [pc EXCEPT ![c] = "initializing"]
         /\ UNCHANGED cleanupSaw

\* A connection arrives: handle_client runs to its first suspension.
HandleClientStart(c, addr) ==
    /\ pc[c] = "unconnected"
    /\ \A d \in Conns : d < c => pc[d] # "unconnected"
    /\ EnvironmentEvent
    /\ remote_address' = [remote_address EXCEPT ![c] = addr]
    /\ IF ~Allowed(addr)
       THEN \* await websocket.close()
            /\ pc' = [pc EXCEPT ![c] = "rejecting"]
            /\ closed' = [closed EXCEPT ![c] = TRUE]
            /\ UNCHANGED <<current_client, sent, cleanupSaw, activeAtArrival>>
       ELSE /\ activeAtArrival' =
                  [activeAtArrival EXCEPT ![c] = {d \in Conns : InSession(d)}]
            /\ IF NeedsEviction(current_client)
               THEN \* await current_client.close()
                    /\ pc' = [pc EXCEPT ![c] = "evicting"]
                    /\ closed' = [closed EXCEPT ![current_client] = TRUE]
                    /\ UNCHANGED <<current_client, sent, cleanupSaw>>
               ELSE /\ InstallAndInit(c)
                    /\ UNCHANGED closed
    /\ UNCHANGED <<last_sent_message, pending, depth, tasks, peerClosed, acked,
                   calls, bfailed>>

\* await websocket.close() of a rejected connection returns: return
RejectCloseReturn(c) ==
    /\ pc[c] = "rejecting"
    /\ pc' = [pc EXCEPT ![c] = "rejected"]
    /\ UNCHANGED <<globals, remote_address, closed, sent, pending, depth,
                   tasks, hist>>

\* await current_client.close() returns (or raises: except: pass)
EvictCloseReturn(c) ==
    /\ pc[c] = "evicting"
    /\ InstallAndInit(c)
    /\ UNCHANGED <<last_sent_message, remote_address, closed, pending, depth,
                   tasks, peerClosed, activeAtArrival, acked, calls, bfailed>>

\* await websocket.send(init) returns or raises
InitSendReturn(c) ==
    /\ pc[c] = "initializing"
    /\ IF closed[c]
       THEN Terminate(c, current_client)
       ELSE /\ pc' = [pc EXCEPT ![c] = AfterInit]
            /\ UNCHANGED <<current_client, cleanupSaw>>
    /\ UNCHANGED <<last_sent_message, remote_address, closed, sent, pending,
                   depth, tasks, peerClosed, activeAtArrival, acked, calls,
                   bfailed>>

\* ack = await websocket.recv() returns a message of the viewer;
\* prev_screenshot = black; continuous_delta_updates is called
RecvAck(c) ==
    /\ pc[c] = "awaiting_ack"
    /\ ~closed[c]
    /\ pc' = [pc EXCEPT ![c] = "capture"]
    /\ depth' = [depth EXCEPT ![c] = 1]
    /\ acked' = [acked EXCEPT ![c] = TRUE]
    /\ UNCHANGED <<globals, remote_address, closed, sent, pending, tasks,
                   peerClosed, activeAtArrival, cleanupSaw, calls, bfailed>>

\* ack = await websocket.recv() raises ConnectionClosed
RecvFail(c) ==
    /\ pc[c] = "awaiting_ack"
    /\ closed[c]
    /\ Terminate(c, current_client)
    /\ UNCHANGED <<last_sent_message, remote_address, closed, sent, pending,
                   depth, tasks, peerClosed, activeAtArrival, acked, calls,
                   bfailed>>

\* ---------------------------------------------- continuous_delta_updates
\* the exception of a failed send leaves continuous_delta_updates, at every
\* nesting level, and reaches handle_client's except and finally clauses
SendError(c) ==
    IF AfterSendError = "terminated"
    THEN /\ Terminate(c, current_client)
         /\ UNCHANGED <<pending, depth>>
    ELSE /\ pc' = [pc EXCEPT ![c] = AfterSendError]
         /\ pending' = [pending EXCEPT ![c] = 0]
         /\ UNCHANGED <<current_client, cleanupSaw, depth>>

\* await continuous_delta_updates(websocket, new_screenshot): one more level
\* of nesting, or RecursionError, which except Exception catches
FrameDone(c) ==
    IF depth[c] >= RecursionLimit
    THEN /\ Terminate(c, current_client)
         /\ UNCHANGED <<pending, depth>>
    ELSE /\ depth' = [depth EXCEPT ![c] = @ + 1]
         /\ pc' = [pc EXCEPT ![c] = "capture"]
         /\ UNCHANGED <<current_client, cleanupSaw, pending>>

\* new_screenshot = ImageGrab.grab(); generate_delta_packets yields n packets;
\* the first of them is sent
Capture(c, n) ==
    /\ pc[c] = "capture"
    /\ IF n = 0
       THEN /\ FrameDone(c)
            /\ UNCHANGED sent
       ELSE IF closed[c]
            THEN /\ SendError(c)
                 /\ UNCHANGED sent
            ELSE /\ sent' = [sent EXCEPT ![c] = Append(@, RectanglePacket)]
                 /\ pending' = [pending EXCEPT ![c] = n - 1]
                 /\ pc' = [pc EXCEPT ![c] = "sending"]
                 /\ UNCHANGED <<current_client, cleanupSaw, depth>>
    /\ UNCHANGED <<last_sent_message, remote_address, closed, tasks,
                   peerClosed, activeAtArrival, acked, calls, bfailed>>

\* await websocket.send(packet_json) returns or raises; the loop goes on
\* with the next packet of the frame, or the frame is done
SendReturn(c) ==
    /\ pc[c] = "sending"
    /\ IF closed[c]
       THEN /\ SendError(c)
            /\ UNCHANGED sent
       ELSE IF pending[c] > 0
            THEN /\ sent' = [sent EXCEPT ![c] = Append(@, RectanglePacket)]
                 /\ pending' = [pending EXCEPT ![c] = @ - 1]
                 /\ UNCHANGED <<current_client, cleanupSaw, pc, depth>>
            ELSE /\ FrameDone(c)
                 /\ UNCHANGED sent
    /\ UNCHANGED <<last_sent_message, remote_address, closed, tasks,
                   peerClosed, activeAtArrival, acked, calls, bfailed>>

\* the viewer disconnects, or the network drops the connection
PeerDisconnect(c) ==
    /\ pc[c] \in {"evicting", "initializing", "awaiting_ack", "capture",
                  "sending"}
    /\ ~closed[c]
    /\ EnvironmentEvent
    /\ closed' = [closed EXCEPT ![c] = TRUE]
    /\ peerClosed' = [peerClosed EXCEPT ![c] = TRUE]
    /\ UNCHANGED <<globals, pc, remote_address, sent, pending, depth, tasks,
                   activeAtArrival, acked, cleanupSaw, calls, bfailed>>

\* ---------------------------------------------------- broadcast_message
\* on_modified schedules broadcast_message(message); the coroutine runs to
\* its return or to the suspension of its send
BroadcastCall(b, message) ==
    /\ bpc[b] = "unscheduled"
    /\ \A a \in Tasks : a < b => bpc[a] # "unscheduled"
    /\ EnvironmentEvent
    /\ calls' = Append(calls, message)
    /\ IF IsDuplicate(message, last_sent_message)
       THEN /\ bpc' = [bpc EXCEPT ![b] = "done"]
            /\ UNCHANGED <<globals, sent, btarget, bfailed>>
       ELSE /\ last_sent_message' = message
            /\ IF current_client = NoClient
               THEN /\ bpc' = [bpc EXCEPT ![b] = "done"]
                    /\ UNCHANGED <<current_client, sent, btarget, bfailed>>
               ELSE IF closed[current_client]
                    THEN \* the send raises: except Exception
                         /\ bpc' = [bpc EXCEPT ![b] = "done"]
                         /\ current_client' =
                              SlotAfterBroadcastFailure(current_client)
                         /\ bfailed' =
                              [bfailed EXCEPT ![current_client] = TRUE]
                         /\ UNCHANGED <<sent, btarget>>
                    ELSE /\ sent' = [sent EXCEPT ![current_client] =
                                       Append(@, TextMessage(message))]
                         /\ bpc' = [bpc EXCEPT ![b] = "in_send"]
                         /\ btarget' = [btarget EXCEPT ![b] = current_client]
                         /\ UNCHANGED <<current_client, bfailed>>
    /\ UNCHANGED <<pc, remote_address, closed, pending, depth, peerClosed,
                   activeAtArrival, acked, cleanupSaw>>

\* await current_client.send(message) returns, or raises because the
\* connection was closed meanwhile: except Exception: current_client = None
BroadcastSendReturn(b) ==
    /\ bpc[b] = "in_send"
    /\ bpc' = [bpc EXCEPT ![b] = "done"]
    /\ btarget' = [btarget EXCEPT ![b] = NoClient]
    /\ IF closed[btarget[b]]
       THEN /\ current_client' = SlotAfterBroadcastFailure(current_client)
            /\ bfailed' = [bfailed EXCEPT ![btarget[b]] = TRUE]
       ELSE UNCHANGED <<current_client, bfailed>>
    /\ UNCHANGED <<last_sent_message, pc, remote_address, closed, sent,
                   pending, depth, peerClosed, activeAtArrival, acked,
                   cleanupSaw, calls>>

\* ------------------------------------------------------------- on_modified
\* the line extract_latest_event looks at: the last one that is not empty
\* after strip(), or "" if there is none
LastLine(lines) ==
    LET full == {i \in DOMAIN lines : lines[i] \notin {"", " "}}
    IN  IF full = {} THEN ""
        ELSE lines[CHOOSE i \in full : \A k \in full : k <= i]

\* what kind of file event this is
EventClass(event) ==
    IF event.is_directory THEN "directory"
    ELSE IF event.src_path[Len(event.src_path)] # ".jsonl" THEN "other_file"
    ELSE IF LastLine(event.lines) = "" THEN "empty"
    ELSE IF LastLine(event.lines) \notin {"e1", "e2"} THEN "malformed"
    ELSE "event"

\* the watcher calls on_modified(event); if message: broadcast_message
\* runs to its return or to the suspension of its send
OnModified(event) ==
    /\ EnvironmentEvent
    /\ watched' = Append(watched, [class |-> EventClass(event),
                                   line |-> LastLine(event.lines)])
    /\ IF on_modified(event) # None
       THEN \E b \in Tasks : BroadcastCall(b, on_modified(event))
       ELSE UNCHANGED <<globals, pc, remote_address, closed, sent, pending,
                       depth, tasks, hist>>
    /\ UNCHANGED <<sun, screen, calc>>

\* ------------------------------------------------------- specification
\* the steps of the handlers and of a suspended broadcast
ServerStep ==
    \/ \E c \in Conns, addr \in Addresses :
          HandleClientStart(c, addr) /\ UNCHANGED <<watched, sun, screen, calc>>
    \/ \E c \in Conns :
          RejectCloseReturn(c) /\ UNCHANGED <<watched, sun, screen, calc>>
    \/ \E c \in Conns :
          EvictCloseReturn(c) /\ UNCHANGED <<watched, sun, screen, calc>>
    \/ \E c \in Conns :
          InitSendReturn(c) /\ UNCHANGED <<watched, sun, screen, calc>>
    \/ \E c \in Conns :
          RecvAck(c) /\ UNCHANGED <<watched, sun, screen, calc>>
    \/ \E c \in Conns :
          RecvFail(c) /\ UNCHANGED <<watched, sun, screen, calc>>
    \/ \E c \in Conns, n \in 0..MaxPackets :
          Capture(c, n) /\ UNCHANGED <<watched, sun, screen, calc>>
    \/ \E c \in Conns :
          SendReturn(c) /\ UNCHANGED <<watched, sun, screen, calc>>
    \/ \E c \in Conns :
          PeerDisconnect(c) /\ UNCHANGED <<watched, sun, screen, calc>>
    \/ \E b \in Tasks :
          BroadcastSendReturn(b) /\ UNCHANGED <<watched, sun, screen, calc>>

\* the server; a file event that makes on_modified call broadcast_message
\* is represented by the message
Next ==
    \/ ServerStep
    \/ \E b \in Tasks, message \in Payloads :
          BroadcastCall(b, message) /\ UNCHANGED <<watched, sun, screen, calc>>

Spec == Init /\ [][Next]_vars

\* The event loop resumes every coroutine whose await has completed: a
\* handler whose send, recv or close has returned or raised, and a capture
\* loop between two frames.
HandlerStep(c) ==
    \/ RejectCloseReturn(c)
    \/ EvictCloseReturn(c)
    \/ InitSendReturn(c)
    \/ RecvFail(c)
    \/ \E n \in 0..MaxPackets : Capture(c, n)
    \/ SendReturn(c)

FairSpec ==
    /\ Spec
    /\ \A c \in Conns :
          WF_vars(HandlerStep(c) /\ UNCHANGED <<watched, sun, screen, calc>>)
    /\ \A b \in Tasks :
          WF_vars(BroadcastSendReturn(b)
                  /\ UNCHANGED <<watched, sun, screen, calc>>)

\* the server with the file events of the watcher
WatchNext ==
    \/ ServerStep
    \/ EnvironmentEvent /\ \E event \in FileEvents : OnModified(event)

WatchSpec == Init /\ [][WatchNext]_vars

\* ------------------------------------------------ the first session's init
\* main has fetched the sun times; the first connection arrives
SunInit ==
    /\ ServerInit
    /\ sun_times_data \in {fetch_sun_times(response) : response \in ApiResponses}
    /\ clock \in Times
    /\ ScreenInit
    /\ CalcInit

SunNext ==
    \/ \E addr \in Addresses :
          HandleClientStart(1, addr) /\ UNCHANGED <<watched, sun, screen, calc>>
    \/ RejectCloseReturn(1) /\ UNCHANGED <<watched, sun, screen, calc>>
    \/ InitSendReturn(1) /\ UNCHANGED <<watched, sun, screen, calc>>

SunSpec == SunInit /\ [][SunNext]_vars

\* ------------------------------------------- the capture loop, with pixels
\* the first connection has been installed and has acknowledged its init:
\* continuous_delta_updates(websocket, prev_screenshot) with the black image
FrameInit ==
    /\ current_client = 1
    /\ last_sent_message = None
    /\ pc = [c \in Conns |-> IF c = 1 THEN "capture" ELSE "unconnected"]
    /\ remote_address = [c \in Conns |-> IF c = 1 THEN <<SPECTACLES_IP>> ELSE <<>>]
    /\ closed = [c \in Conns |-> FALSE]
    /\ sent = [c \in Conns |-> IF c = 1 THEN <<InitPacket(NightColor)>> ELSE <<>>]
    /\ pending = [c \in Conns |-> 0]
    /\ depth = [c \in Conns |-> IF c = 1 THEN 1 ELSE 0]
    /\ bpc = [b \in Tasks |-> "unscheduled"]
    /\ btarget = [b \in Tasks |-> NoClient]
    /\ peerClosed = [c \in Conns |-> FALSE]
    /\ activeAtArrival = [c \in Conns |-> {}]
    /\ acked = [c \in Conns |-> c = 1]
    /\ cleanupSaw = [c \in Conns |-> -1]
    /\ calls = <<>>
    /\ bfailed = [c \in Conns |-> FALSE]
    /\ watched = <<>>
    /\ sun_times_data = NoSunTimes
    /\ clock = 0
    /\ ScreenInit
    /\ CalcInit

\* await continuous_delta_updates(websocket, new_screenshot): the
\* prev_screenshot of the next cycle
MutKeepPrevScreenshot(prev, new) == prev
NextPrevScreenshot(prev, new) == new

\* new_screenshot = ImageGrab.grab().resize(...); the packets of
\* generate_delta_packets(prev_screenshot, new_screenshot) are sent, the
\* first in this step; when none is left continuous_delta_updates calls
\* itself with new_screenshot as prev_screenshot
GrabFrame(c, frame) ==
    /\ pc[c] = "capture"
    /\ LET delta == DeltaStages(prev_screenshot, frame)
       IN  /\ new_screenshot' = frame
           /\ changed_pixels' = delta.changed_pixels
           /\ rectangles' = delta.rectangles
           /\ packets' = delta.packets
           /\ Capture(c, Len(delta.packets))
           /\ cycles' = IF Len(delta.packets) = 0
                        THEN Append(cycles, [screenshot |-> frame,
                                             rectangles |-> <<>>])
                        ELSE cycles
    /\ prev_screenshot' = IF pc'[c] = "capture"
                          THEN NextPrevScreenshot(prev_screenshot, frame)
                          ELSE prev_screenshot
    /\ UNCHANGED <<watched, sun, calc>>

\* await websocket.send(packet_json) returns or raises; after the last
\* packet of the frame the cycle is complete
FrameSendReturn(c) ==
    /\ SendReturn(c)
    /\ cycles' = IF ~closed[c] /\ pending[c] = 0
                 THEN Append(cycles, [screenshot |-> new_screenshot,
                                      rectangles |-> SentRectangles(packets)])
                 ELSE cycles
    /\ prev_screenshot' = IF pc'[c] = "capture"
                          THEN NextPrevScreenshot(prev_screenshot,
                                                  new_screenshot)
                          ELSE prev_screenshot
    /\ UNCHANGED <<new_screenshot, changed_pixels, rectangles, packets>>
    /\ UNCHANGED <<watched, sun, calc>>

FrameNext ==
    \/ \E c \in Conns, frame \in Frames : GrabFrame(c, frame)
    \/ \E c \in Conns : FrameSendReturn(c)
    \/ \E c \in Conns :
          PeerDisconnect(c) /\ UNCHANGED <<watched, sun, screen, calc>>

FrameSpec == FrameInit /\ [][FrameNext]_vars

\* ------------------------------------------- merge_pixels_to_rectangles
QuantizedColors == {quantize_color(rgb, DefaultLevels) : rgb \in RawColors}
\* the mappings generate_delta_packets can build
ChangedMaps == UNION {[D -> QuantizedColors] : D \in SUBSET Coords}

MergeInit ==
    /\ ServerInit
    /\ sun_times_data = NoSunTimes
    /\ clock = 0
    /\ prev_screenshot = BlackFrame
    /\ new_screenshot = BlackFrame
    /\ changed_pixels \in ChangedMaps
    /\ rectangles = <<>>
    /\ packets = <<>>
    /\ cycles = <<>>
    /\ pixels_per_packet = RECTANGLES_PER_PACKET
    /\ color = Black
    /\ quantized_color = <<>>
    /\ stage = "changed_pixels"

\* rectangles = merge_pixels_to_rectangles(changed_pixels)
Merge ==
    /\ stage = "changed_pixels"
    /\ rectangles' = merge_pixels_to_rectangles(changed_pixels)
    /\ stage' = "rectangles"
    /\ UNCHANGED <<globals, pc, remote_address, closed, sent, pending, depth,
                   tasks, hist, watched, sun, cycles, prev_screenshot, new_screenshot,
                   changed_pixels, packets, pixels_per_packet, color,
                   quantized_color>>

MergeNext == Merge

MergeSpec == MergeInit /\ [][MergeNext]_vars

\* ------------------------------------------------------- the packetizers
MaxCapacity == 3        \* packet capacities are 1..MaxCapacity

\* screenshots of every size up to the screen's
Screenshots ==
    UNION {Images(w, h) : w \in 0..screen_width, h \in 0..screen_height}

PacketInit ==
    /\ ServerInit
    /\ sun_times_data = NoSunTimes
    /\ clock = 0
    /\ prev_screenshot = BlackFrame
    /\ packets = <<>>
    /\ cycles = <<>>
    /\ pixels_per_packet \in 1..MaxCapacity
    /\ color = Black
    /\ quantized_color = <<>>
    /\ \/ /\ stage = "screenshot"
          /\ new_screenshot \in Screenshots
          /\ changed_pixels = NoPixels
          /\ rectangles = <<>>
       \/ /\ stage = "rectangles"
          /\ new_screenshot = BlackFrame
          /\ changed_pixels \in ChangedMaps
          /\ rectangles = merge_pixels_to_rectangles(changed_pixels)

\* the packets of generate_screenshot_packets(screenshot, pixels_per_packet)
ScreenshotPackets ==
    /\ stage = "screenshot"
    /\ packets' = generate_screenshot_packets(new_screenshot, pixels_per_packet)
    /\ stage' = "screenshot_packets"
    /\ UNCHANGED <<globals, pc, remote_address, closed, sent, pending, depth,
                   tasks, hist, watched, sun, cycles, prev_screenshot, new_screenshot,
                   changed_pixels, rectangles, pixels_per_packet, color,
                   quantized_color>>

\* Step 3 of generate_delta_packets, with pixels_per_packet as the capacity
RectanglePackets ==
    /\ stage = "rectangles"
    /\ packets' = RectangleBatches(rectangles, pixels_per_packet)
    /\ stage' = "rectangle_packets"
    /\ UNCHANGED <<globals, pc, remote_address, closed, sent, pending, depth,
                   tasks, hist, watched, sun, cycles, prev_screenshot, new_screenshot,
                   changed_pixels, rectangles, pixels_per_packet, color,
                   quantized_color>>

PacketNext == ScreenshotPackets \/ RectanglePackets

PacketSpec == PacketInit /\ [][PacketNext]_vars

\* ------------------------------------------------------- quantize_color
Channel == 0..(ChannelValues - 1)

QuantizeInit ==
    /\ ServerInit
    /\ sun_times_data = NoSunTimes
    /\ clock = 0
    /\ ScreenInit
    /\ pixels_per_packet = RECTANGLES_PER_PACKET
    /\ color \in {<<r, g, b>> : r \in Channel, g \in {0, 255}, b \in {127, 128}}
    /\ quantized_color = <<>>
    /\ stage = "color"

\* quantized_color = quantize_color(color)
Quantize ==
    /\ stage = "color"
    /\ quantized_color' = quantize_color(color, DefaultLevels)
    /\ stage' = "quantized"
    /\ UNCHANGED <<globals, pc, remote_address, closed, sent, pending, depth,
                   tasks, hist, watched, sun, screen, pixels_per_packet, color>>

\* quantize_color applied to its own result
Requantize ==
    /\ stage = "quantized"
    /\ color' = quantized_color
    /\ quantized_color' = quantize_color(quantized_color, DefaultLevels)
    /\ stage' = "requantized"
    /\ UNCHANGED <<globals, pc, remote_address, closed, sent, pending, depth,
                   tasks, hist, watched, sun, screen, pixels_per_packet>>

QuantizeNext == Quantize \/ Requantize

QuantizeSpec == QuantizeInit /\ [][QuantizeNext]_vars

\* ------------------------------------------------------------ the claims
\* c is a connection from the allow-listed address that has arrived
Accepted(c) ==
    pc[c] # "unconnected" /\ client_ip(remote_address[c]) = SPECTACLES_IP

\* C1: in every reachable state at most one session is Streaming: at most
\* one handler runs the capture loop on a connection nobody has closed.
C1_AtMostOneStreaming == Cardinality({c \in Conns : Streaming(c)}) <= 1

\* every handler and every broadcast has run as far as it can without a
\* further message of a viewer
Settled ==
    /\ \A c \in Conns :
          /\ pc[c] \notin {"rejecting", "evicting", "initializing"}
          /\ closed[c] => pc[c] \in {"terminated", "rejected"}
    /\ \A b \in Tasks : bpc[b] # "in_send"

\* no session has ended for a reason other than eviction by a newer one
OnlyEvictions ==
    \A c \in Conns :
        /\ ~peerClosed[c]
        /\ ~bfailed[c]
        /\ pc[c] = "terminated" => closed[c]

\* C2: after N >= 1 connection attempts from the allow-listed address, once
\* all handlers have run as far as they can, exactly one session is active,
\* current_client holds its connection, and every other session is
\* Terminated.
C2_ExactlyOneActive ==
    (Settled /\ OnlyEvictions /\ \E c \in Conns : Accepted(c))
    => \E c \in Conns :
          /\ InSession(c)
          /\ current_client = c
          /\ \A d \in Conns \ {c} : Accepted(d) => pc[d] = "terminated"

\* C3: when a connection from the allow-listed address arrives while a
\* session is in progress, that session has reached Terminated before the
\* init packet is sent on the new connection.
C3_EvictedBeforeInit ==
    \A j \in Conns :
        sent[j] # <<>> => \A i \in activeAtArrival[j] : pc[i] = "terminated"

HasType(c, t) == \E i \in DOMAIN sent[c] : sent[c][i].type = t

\* C5: when the send of broadcast_message to the active session fails, the
\* active-session slot is cleared, the connection of that session is closed
\* so that its capture loop sends no further packet, and (every runnable
\* coroutine being resumed) its handler reaches Terminated.
C5_BroadcastFailureTerminates ==
    /\ [][\A c \in Conns :
             /\ (bfailed'[c] /\ ~bfailed[c])
                => (current_client' = NoClient /\ closed[c])
             /\ bfailed[c]
                => (sent'[c] = sent[c] /\ ~Streaming(c) /\ ~Streaming(c)')]_vars
    /\ \A c \in Conns : bfailed[c] ~> (pc[c] = "terminated")

\* a broadcast send failed on a session that had streamed packets, and the
\* session then terminated
C5_Witness ==
    \E c \in Conns :
        /\ bfailed[c]
        /\ pc[c] = "terminated"
        /\ HasType(c, "rectangle_packet")
        /\ HasType(c, "text")

\* C6: when a handler reaches Terminated, the slot is cleared if and only if
\* it held that session's connection at that moment, a newer session's
\* connection is left in it, and a terminated session's connection is never
\* in the slot again.
C6_CleanupClearsOwnSlotOnly ==
    [][\A c \in Conns :
          /\ (pc[c] # "terminated" /\ pc'[c] = "terminated")
             => current_client' = IF cleanupSaw'[c] = c THEN NoClient
                                  ELSE cleanupSaw'[c]
          /\ (pc[c] # "terminated" /\ pc'[c] = "terminated"
                /\ pc[c] # "evicting")
             => cleanupSaw'[c] = current_client
          /\ pc'[c] = "terminated" => current_client' # c
          /\ pc[c] = "terminated" => pc'[c] = "terminated"]_vars

\* a handler terminated while the slot held a newer session's connection,
\* and that connection is still installed
C6_Witness ==
    \E c, d \in Conns :
        /\ pc[c] = "terminated"
        /\ d > c
        /\ cleanupSaw[c] = d
        /\ current_client = d

\* C7: two broadcast_message calls with the same payload and no call with
\* another payload between them send that payload once: the second call,
\* also when it starts while the first is suspended in its send, sends
\* nothing; a call with a new payload sends it exactly once to the session
\* in the slot, if its connection is open; nothing else sends text.
TextCount(c, m) ==
    Cardinality({i \in DOMAIN sent[c] : sent[c][i] = TextMessage(m)})

C7_DuplicateSentOnce ==
    [][IF Len(calls') > Len(calls)
       THEN LET m == calls'[Len(calls')]
            IN  IF calls # <<>> /\ calls[Len(calls)] = m
                THEN sent' = sent
                ELSE IF current_client # NoClient /\ ~closed[current_client]
                     THEN sent' = [sent EXCEPT ![current_client] =
                                     Append(@, TextMessage(m))]
                     ELSE sent' = sent
       ELSE \A c \in Conns, m \in Payloads :
               TextCount(c, m)' = TextCount(c, m)]_vars

\* the second of two calls with the same payload has run while the first is
\* suspended in its send, and the active session has been sent one message
C7_Witness ==
    /\ Len(calls) = 2
    /\ calls[1] = calls[2]
    /\ bpc[1] = "in_send"
    /\ bpc[2] = "done"
    /\ \E c \in Conns :
          /\ current_client = c
          /\ ~closed[c]
          /\ TextCount(c, calls[1]) = 1

\* position of a handler in the session state machine:
\* no session, Initializing, AwaitingAck, Streaming, Terminated
Rank(p) ==
    CASE p = "initializing" -> 1
      [] p = "awaiting_ack" -> 2
      [] p \in {"capture", "sending"} -> 3
      [] p = "terminated" -> 4
      [] OTHER -> 0

\* C8: every accepted session moves only forward through Initializing,
\* AwaitingAck, Streaming, Terminated, one state at a time unless it
\* terminates; the init packet is the first message sent on its connection
\* and the only init; no rectangle_packet is sent on it before a message of
\* the viewer has been received.
C8_ForwardOnly ==
    /\ [][\A c \in Conns :
             /\ Rank(pc'[c]) >= Rank(pc[c])
             /\ Rank(pc'[c]) \in {Rank(pc[c]), Rank(pc[c]) + 1, 4}
             /\ (acked'[c] /\ ~acked[c]) => HasType(c, "init")]_vars
    /\ [](\A c \in Conns :
             /\ sent[c] # <<>> => sent[c][1].type = "init"
             /\ \A i \in DOMAIN sent[c] : i > 1 => sent[c][i].type # "init"
             /\ HasType(c, "rectangle_packet") => acked[c]
             /\ Rank(pc[c]) \in {1, 2, 3} => sent[c] # <<>>
             /\ Rank(pc[c]) = 3 => acked[c])

\* a session has gone through all four states: it received a broadcast
\* while awaiting the acknowledgement, streamed packets and terminated
C8_Witness ==
    \E c \in Conns :
        /\ pc[c] = "terminated"
        /\ Len(sent[c]) >= 3
        /\ sent[c][2].type = "text"
        /\ sent[c][3].type = "rectangle_packet"

\* C9: when a send of the capture loop fails, the handler goes to Terminated
\* in that step: no remaining packet of the frame is sent, the send is not
\* retried, and no later frame is captured or sent for that session.
C9_SendFailureTerminates ==
    [][\A c \in Conns :
          /\ (pc[c] = "sending" /\ closed[c]
                /\ <<pc[c], pending[c], depth[c]>>
                     # <<pc'[c], pending'[c], depth'[c]>>)
             => (pc'[c] = "terminated" /\ pending'[c] = pending[c])
          /\ (InSession(c) /\ closed[c]) => sent'[c] = sent[c]
          /\ pc[c] = "terminated"
             => /\ pc'[c] = "terminated"
                /\ sent'[c] = sent[c]
                /\ pending'[c] = pending[c]
                /\ depth'[c] = depth[c]]_vars

\* a send failed with a packet of the frame not yet sent: the session is
\* terminated and the packet was abandoned
C9_Witness ==
    \E c \in Conns :
        /\ pc[c] = "terminated"
        /\ closed[c]
        /\ pending[c] > 0
        /\ HasType(c, "rectangle_packet")

\* C10: a session leaves Streaming only through a disconnect, a send
\* failure or eviction, each of which closes its connection; otherwise it
\* keeps capturing, for any number of frames.
C10_LeavesStreamingOnlyClosed ==
    [][\A c \in Conns :
          (pc[c] \in {"capture", "sending"} /\ pc'[c] = "terminated")
          => closed[c]]_vars


\* ----------------------------------------------------------- C11
\* payload of the most recent call of broadcast_message that was not a
\* duplicate of the call before it, or None if there has been no call
MostRecentNonDuplicate(cs) ==
    IF cs = <<>> THEN None
    ELSE LET fresh == {i \in DOMAIN cs : i = 1 \/ cs[i] # cs[i - 1]}
             j == CHOOSE i \in fresh : \A k \in fresh : k <= i
         IN  cs[j]

\* C11: the init packet of every new session carries, as its last message,
\* the payload of the most recent non-duplicate broadcast_message call made
\* before the init is built, None if there was none, whether or not that
\* payload was ever sent to a viewer; and it is never altered afterwards.
C11_InitCarriesLastPayload ==
    [][\A c \in Conns :
          /\ (sent[c] = <<>> /\ sent'[c] # <<>>)
             => /\ sent'[c][1].type = "init"
                /\ sent'[c][1].body = MostRecentNonDuplicate(calls)
          /\ sent[c] # <<>> => sent'[c][1] = sent[c][1]]_vars

\* a session's init carries a payload that was broadcast while no session
\* was installed and has never been sent to any connection as a message
C11_Witness ==
    \E c \in Conns :
        /\ sent[c] # <<>>
        /\ sent[c][1].type = "init"
        /\ sent[c][1].body \in Payloads
        /\ \A d \in Conns : TextCount(d, sent[c][1].body) = 0


Grabs(c) ==
    /\ pc[c] = "capture"
    /\ closed' = closed
    /\ <<pc[c], depth[c]>> # <<pc'[c], depth'[c]>>

\* C13: when the screenshot a Streaming session grabs is identical to
\* prev_screenshot at every coordinate, changed_pixels is empty, no packet
\* is generated and none is sent in that cycle, and the session stays
\* Streaming.
C13_IdenticalFrameNoPacket ==
    [][\A c \in Conns :
          (Streaming(c) /\ Grabs(c) /\ new_screenshot' = prev_screenshot)
          => /\ DOMAIN changed_pixels' = {}
             /\ packets' = <<>>
             /\ sent' = sent
             /\ Streaming(c)']_vars

\* ----------------------------------------------------------- C14
\* C14: the change set generate_delta_packets computes for two screenshots
\* contains a coordinate (once: it is a mapping) exactly if the colors of
\* the two screenshots at that coordinate differ after quantization.
C14_ChangeSetIsQuantizedDifference ==
    [][\A c \in Conns :
          Grabs(c)
          => DOMAIN changed_pixels' =
                {p \in Coords :
                    quantize_color(prev_screenshot.pixels[p], DefaultLevels)
                    # quantize_color(new_screenshot'.pixels[p], DefaultLevels)}]_vars


\* ----------------------------------------------------------- C15
\* C15: the rectangles merge_pixels_to_rectangles returns cover exactly
\* the changed coordinates: every changed coordinate lies in exactly one
\* rectangle, no rectangle contains an unchanged coordinate, and no two
\* rectangles overlap.
C15_RectanglesPartitionChanged ==
    stage = "rectangles"
    => /\ \A p \in DOMAIN changed_pixels :
             Cardinality({i \in DOMAIN rectangles :
                             p \in Cells(rectangles[i])}) = 1
       /\ \A i \in DOMAIN rectangles :
             /\ rectangles[i].w >= 1 /\ rectangles[i].h >= 1
             /\ Cells(rectangles[i]) \subseteq DOMAIN changed_pixels
       /\ \A i, j \in DOMAIN rectangles :
             i # j => Cells(rectangles[i]) \cap Cells(rectangles[j]) = {}

\* three changed pixels of one color around an unchanged one: the rectangle
\* grown from (0, 1) stops at (1, 1), which the rectangle grown down from
\* (1, 0) already holds
C15_Witness ==
    /\ stage = "rectangles"
    /\ DOMAIN changed_pixels = Coords \ {<<0, 0>>}
    /\ \A p, q \in DOMAIN changed_pixels : changed_pixels[p] = changed_pixels[q]
    /\ Len(rectangles) = 2
    /\ Cells(rectangles[1]) = {<<1, 0>>, <<1, 1>>}
    /\ Cells(rectangles[2]) = {<<0, 1>>}

\* ----------------------------------------------------------- C16
\* C16: every coordinate inside the bounds of a returned rectangle is
\* mapped, in the input, to exactly the (r, g, b) of that rectangle.
C16_RectangleColorIsInputColor ==
    stage = "rectangles"
    => \A i \in DOMAIN rectangles :
          \A p \in Cells(rectangles[i]) :
              /\ p \in DOMAIN changed_pixels
              /\ changed_pixels[p] =
                    <<rectangles[i].r, rectangles[i].g, rectangles[i].b>>

\* a rectangle of two pixels next to pixels of the other color, which it
\* did not take in
C16_Witness ==
    /\ stage = "rectangles"
    /\ DOMAIN changed_pixels = Coords
    /\ Len(rectangles) = 3
    /\ \E i \in DOMAIN rectangles :
          /\ rectangles[i].w * rectangles[i].h = 2
          /\ \E j \in DOMAIN rectangles :
                <<rectangles[j].r, rectangles[j].g, rectangles[j].b>>
                # <<rectangles[i].r, rectangles[i].g, rectangles[i].b>>


\* ----------------------------------------------------------- C17
\* the items of a packet
ItemsOf(packet) ==
    IF packet.type = "rectangle_packet" THEN packet.rectangles
    ELSE packet.pixels

\* the items of a sequence of packets, in emission order
RECURSIVE Concatenated(_)
Concatenated(ps) ==
    IF ps = <<>> THEN <<>> ELSE ItemsOf(Head(ps)) \o Concatenated(Tail(ps))

\* the item sequence a packetizer was given
InputItems ==
    IF stage = "rectangle_packets" THEN rectangles
    ELSE [k \in 1..(new_screenshot.width * new_screenshot.height) |->
             PixelItem(new_screenshot, k - 1)]

\* C17: for an item sequence of length L and a capacity B > 0 a packetizer
\* emits exactly ceil(L / B) packets, every packet but the last holds
\* exactly B items, no packet is empty (no packet at all for L = 0), and
\* the packets' items, concatenated in emission order, are the input.
C17_PacketsPartitionItems ==
    stage \in {"rectangle_packets", "screenshot_packets"}
    => LET L == Len(InputItems)
           B == pixels_per_packet
       IN  /\ Len(packets) = (L + B - 1) \div B
           /\ \A i \in DOMAIN packets :
                 /\ i < Len(packets) => Len(ItemsOf(packets[i])) = B
                 /\ Len(ItemsOf(packets[i])) \in 1..B
           /\ Concatenated(packets) = InputItems

\* a screenshot of four pixels with capacity 3: a full packet and a last
\* packet with one pixel
C17_Witness ==
    /\ pixels_per_packet = 3
    /\ Len(packets) = 2
    /\ Len(ItemsOf(packets[2])) = 1
    /\ stage = "screenshot_packets"


\* ----------------------------------------------------------- C18
\* C18: quantize_color is idempotent: for every channel value in 0..255,
\* with the default 16 levels, quantizing the quantized value gives the
\* same value; and every result is in 0..255.
C18_QuantizeIdempotent ==
    /\ stage \in {"quantized", "requantized"}
       => \A i \in DOMAIN quantized_color : quantized_color[i] \in Channel
    /\ stage = "requantized" => quantized_color = color

\* the color (255, 0, 128) has been quantized twice
C18_Witness ==
    /\ stage = "requantized"
    /\ color = <<248, 8, 136>>
    /\ quantized_color = <<248, 8, 136>>


\* ----------------------------------------------------------- C19
\* the boundary data is unavailable, in whole or in part
Unavailable(sun_times) ==
    \/ sun_times.is_none
    \/ NoTime \in {sun_times.astronomical_dawn, sun_times.sunrise,
                   sun_times.solar_noon, sun_times.sunset,
                   sun_times.astronomical_dusk}

\* the color the claim states for an instant and the boundary data
ClaimedColor(sun_times, now) ==
    IF Unavailable(sun_times) THEN NightColor
    ELSE IF sun_times.astronomical_dawn <= now /\ now < sun_times.sunrise
         THEN DawnColor
    ELSE IF sun_times.sunrise <= now /\ now < sun_times.solar_noon
         THEN MorningColor
    ELSE IF sun_times.solar_noon <= now /\ now < sun_times.sunset
         THEN AfternoonColor
    ELSE IF sun_times.sunset <= now /\ now < sun_times.astronomical_dusk
         THEN DuskColor
    ELSE NightColor

\* C19: the color of a session's init is dawn in [astronomical dawn,
\* sunrise), morning in [sunrise, solar noon), afternoon in [solar noon,
\* sunset), dusk in [sunset, astronomical dusk) and night otherwise, and
\* night whenever the boundary data is unavailable in whole or in part;
\* the session being initialized is not failed by the computation.
C19_SunPhaseColor ==
    \A c \in Conns :
        (Accepted(c) /\ pc[c] # "evicting")
        => /\ pc[c] # "terminated"
           /\ sent[c] # <<>>
           /\ sent[c][1].color = ClaimedColor(sun_times_data, clock)


\* ----------------------------------------------------------- C20
\* C20: a file event whose last non-empty line is malformed, or whose path
\* does not end in ".jsonl" (or that has no non-empty line, or is about a
\* directory), causes no broadcast_message call and no change of
\* last_sent_message, of current_client or of what has been sent; and the
\* watcher goes on: an event whose last non-empty line is a JSON object is
\* passed to broadcast_message, formatted, whatever was dropped before.
C20_MalformedEventDropped ==
    [][Len(watched') > Len(watched)
       => LET e == watched'[Len(watched')]
          IN  /\ e.class # "event"
                 => /\ calls' = calls
                    /\ last_sent_message' = last_sent_message
                    /\ current_client' = current_client
                    /\ sent' = sent
                    /\ bpc' = bpc
              /\ e.class = "event"
                 => calls' = Append(calls, Formatted[e.line])]_vars

\* an event with a malformed last line was dropped, and the event after it
\* was broadcast to the active session
C20_Witness ==
    /\ Len(watched) = 2
    /\ watched[1].class = "malformed"
    /\ watched[2].class = "event"
    /\ calls = <<Formatted[watched[2].line]>>
    /\ last_sent_message = calls[1]
    /\ \E c \in Conns :
          /\ current_client = c
          /\ TextCount(c, calls[1]) = 1


\* ----------------------------------------------------------- C21
\* the pixels of the rectangles emitted before the i-th
VisitedBefore(i) == UNION {Cells(rectangles[j]) : j \in 1..(i - 1)}
\* pixel p is changed, not in an earlier rectangle, and of the i-th
\* rectangle's color
Takeable(p, i) ==
    /\ p \in DOMAIN changed_pixels
    /\ p \notin VisitedBefore(i)
    /\ changed_pixels[p] =
          <<rectangles[i].r, rectangles[i].g, rectangles[i].b>>
\* the position of a rectangle's seed in the row-major scan
SeedRank(rect) == rect.y * screen_width + rect.x
\* the 2x2 grid with column 0 of one color and column 1 of another
TwoColumns ==
    /\ DOMAIN changed_pixels = {<<0, 0>>, <<1, 0>>, <<0, 1>>, <<1, 1>>}
    /\ changed_pixels[<<0, 0>>] = changed_pixels[<<0, 1>>]
    /\ changed_pixels[<<1, 0>>] = changed_pixels[<<1, 1>>]
    /\ changed_pixels[<<0, 0>>] # changed_pixels[<<1, 0>>]

\* C21: merge_pixels_to_rectangles emits rectangles in row-major order of
\* their seeds, each seed being a changed pixel no earlier rectangle holds;
\* the width of a rectangle is the maximal run to the right of its seed of
\* changed, unvisited pixels of the seed's color, and its height is
\* extended row by row only while every column of that width in the next
\* row is changed, unvisited and of that color. A 2x2 grid with two
\* columns of different colors gives exactly two rectangles of width 1 and
\* height 2.
C21_WidthFirstRowMajor ==
    stage = "rectangles"
    => /\ \A i, j \in DOMAIN rectangles :
             i < j => SeedRank(rectangles[i]) < SeedRank(rectangles[j])
       /\ \A i \in DOMAIN rectangles :
             LET rect == rectangles[i]
                 Row(y) == {<<x, y>> : x \in rect.x..(rect.x + rect.w - 1)}
             IN  /\ Takeable(<<rect.x, rect.y>>, i)
                 /\ \A p \in Row(rect.y) : Takeable(p, i)
                 /\ ~Takeable(<<rect.x + rect.w, rect.y>>, i)
                 /\ \A y \in (rect.y + 1)..(rect.y + rect.h - 1) :
                       \A p \in Row(y) : Takeable(p, i)
                 /\ \E p \in Row(rect.y + rect.h) : ~Takeable(p, i)
       /\ TwoColumns
          => /\ Len(rectangles) = 2
             /\ \A i \in 1..2 :
                   /\ rectangles[i].x = i - 1 /\ rectangles[i].y = 0
                   /\ rectangles[i].w = 1 /\ rectangles[i].h = 2
                   /\ <<rectangles[i].r, rectangles[i].g, rectangles[i].b>>
                      = changed_pixels[<<i - 1, 0>>]

\* the two-column grid has been merged into its two rectangles
C21_Witness ==
    /\ stage = "rectangles"
    /\ TwoColumns
    /\ Len(rectangles) = 2
    /\ rectangles[1].h = 2 /\ rectangles[2].h = 2


\* ----------------------------------------------------------- C22
\* broadcast task b's send to connection x fails now, while the slot holds
\* another connection
FailureHandledBesideOther(b) ==
    /\ bpc[b] = "in_send"
    /\ bpc'[b] = "done"
    /\ closed[btarget[b]]
    /\ current_client # NoClient
    /\ current_client # btarget[b]

RECURSIVE RectanglesUpTo(_)
RectanglesUpTo(k) ==
    IF k = 0 THEN <<>>
    ELSE RectanglesUpTo(k - 1) \o cycles[k].rectangles

\* the color a canvas holds at p after the rectangles rects were applied
\* in order: that of the last rectangle covering p
Covered(rects, p) == {i \in DOMAIN rects : p \in Cells(rects[i])}
CanvasAt(rects, p) ==
    LET last == CHOOSE i \in Covered(rects, p) :
                   \A j \in Covered(rects, p) : j <= i
    IN  <<rects[last].r, rects[last].g, rects[last].b>>

\* C23: once all packets of frame k of a session have been sent, applying
\* every rectangle sent so far in the session, in send order, to a canvas
\* leaves each pixel that at least one rectangle covers with quantize_color
\* of that pixel's color in frame k.
C23_CanvasShowsFrame ==
    \A k \in DOMAIN cycles :
       \A p \in Coords :
          Covered(RectanglesUpTo(k), p) # {}
          => CanvasAt(RectanglesUpTo(k), p)
             = quantize_color(cycles[k].screenshot.pixels[p], DefaultLevels)

\* two frames have been sent completely; a pixel painted in the first was
\* painted again, with another color, in the second
C23_Witness ==
    /\ Len(cycles) = 2
    /\ \E p \in Coords :
          /\ Covered(cycles[1].rectangles, p) # {}
          /\ Covered(cycles[2].rectangles, p) # {}
          /\ CanvasAt(cycles[1].rectangles, p)
             # CanvasAt(cycles[2].rectangles, p)

====
